---- MODULE Spec2Model ----
(***************************************************************************)
(* The download / frame / package pipeline of src/backend.py               *)
(* (run_automation and its generator event_stream), with the files it      *)
(* keeps between runs: the ledger downloaded_images.log, the download      *)
(* folder, the framed folder and the archive framed_images.zip.            *)
(*                                                                         *)
(* One step of the model is one stretch of the generator between two       *)
(* yields, or one piece of such a stretch; the consumer of the stream may  *)
(* stop reading at any yield, which closes the generator there.            *)
(* The export file is read once (json.load); the model fixes the number of *)
(* messages and of attachments per message when the file is read, and      *)
(* draws each attachment's url and fileName when the loop reaches it; of   *)
(* the messages it keeps the part the loops have yet to go through.        *)
(* Frame colour and size are taken to be well formed (six hex digits, a    *)
(* non-negative size), as the UI of src/app.py sends them.                 *)
(***************************************************************************)
EXTENDS Naturals, Sequences, FiniteSets, TLC

\* ---- bounds of the model ------------------------------------------------
MaxRuns == 2
MaxMsgs == 2
MaxAtts == 3

\* ---- values ---------------------------------------------------------------
Names == {"a.png", "b.png"}
Urls == {"", "http"}
Attachments == [url : Urls, fileName : Names]

\* What one requests.get / iter_content can do:
\*   image     status 200, the body is written and decodes as an image
\*   junk      status 200, the body is written and does not decode
\*   status    a status other than 200
\*   transport requests.get raises
\*   stream    status 200, iter_content raises after the file was opened
Outcomes == {"image", "junk", "status", "transport", "stream"}

RECURSIVE SumSeq(_)
SumSeq(s) == IF s = <<>> THEN 0 ELSE Head(s) + SumSeq(Tail(s))

Range(s) == {s[i] : i \in 1..Len(s)}

\* The export files that can be read: per message, its number of attachments.
Shapes ==
  {s \in UNION {[1..n -> 0..MaxAtts] : n \in 0..MaxMsgs} : SumSeq(s) <= MaxAtts}

NoZip == [exists |-> FALSE, entries |-> {}]

Line(k, n, of, name, res) ==
  [kind |-> k, n |-> n, of |-> of, name |-> name, res |-> res]
NoLine == Line("none", 0, 0, "", "")

NoAtt == [url |-> "", fileName |-> ""]

VARIABLES
  \* kept between runs
  credentials,        \* discord_token and channel_id are both set
  ledger,             \* lines of downloaded_images.log
  files,              \* download folder: name -> absent / image / junk
  framed_dir,         \* names in the framed folder
  zip,                \* framed_images.zip
  exported,           \* a file matching *art_channel*.json is present
  runs,               \* calls of run_automation so far
  \* one call of run_automation
  pc,
  response,           \* what run_automation returned
  force_download,
  downloaded_images,
  new_downloads,
  new_images,
  data,               \* data["messages"] still to go through: attachments per message
  total_images,
  downloaded_count,
  examined,           \* attachments the loop has gone through
  framed_images,
  pending,            \* pool tasks not finished
  results,
  idx,
  line,               \* the line last yielded
  \* bookkeeping for the properties
  stage,
  spoke,              \* a line was yielded since the stage began
  ledger0,            \* the ledger when the run began
  cur,                \* the attachment of the last pass of the loop
  attempts,           \* retrieves issued in this run
  okNames,            \* names whose retrieve completed with status 200
  dlLines,            \* lines yielded by the download loop
  frLines             \* framing lines yielded

persistent == <<credentials, ledger, files, framed_dir, zip, exported, runs>>
locals == <<pc, response, force_download, downloaded_images, new_downloads,
            new_images, data, total_images, downloaded_count, examined,
            framed_images, pending, results, idx, line>>
ghosts == <<stage, spoke, ledger0, cur, attempts, okNames, dlLines, frLines>>
vars == <<persistent, locals, ghosts>>

\* ---- helpers modelling pieces of the code -------------------------------

\* (variant: the force flag is not looked at)
LoadIgnoringForce(force) == Range(ledger)

\* load_downloaded_images
load_downloaded_images(force) ==
  IF force THEN {} ELSE Range(ledger)

\* `if not url or filename in downloaded_images: continue`
Skipped(att, known) ==
  att.url = "" \/ att.fileName \in known

\* (variant: the status is not looked at)
SucceededAnyStatus(o) == o \in {"image", "junk", "status"}

\* the branch that reaches new_downloads.append
Succeeded(o) == o \in {"image", "junk"}

\* open(file_path, "wb") and the chunk loop
WriteFile(fs, name, o) ==
  CASE o = "image" -> [fs EXCEPT ![name] = "image"]
    [] o \in {"junk", "stream"} -> [fs EXCEPT ![name] = "junk"]
    [] OTHER -> fs

\* (variant: the log is opened with "w")
LogOverwrite(log, names) ==
  IF names # <<>> THEN names ELSE log

\* `if new_downloads:` append the names, one per line
LogAppend(log, names) ==
  IF names # <<>> THEN log \o names ELSE log

\* total_images = len(data.get("messages", []))
TotalImages(d) == Len(d)

\* the outer loop moves on to the next message that has attachments left
RECURSIVE NextMessage(_)
NextMessage(d) ==
  IF d # <<>> /\ Head(d) = 0 THEN NextMessage(Tail(d)) ELSE d

\* the inner loop takes one attachment of the message it is in
TakeOne(d) == NextMessage(<<Head(d) - 1>> \o Tail(d))

\* the attachments of the export: those gone through and those to come
Candidates == examined + SumSeq(data)

\* apply_frame: the result string, as (kind, filename)
apply_frame(filename) ==
  IF files[filename] = "image"
    THEN [res |-> "framed", name |-> filename]
    ELSE [res |-> "skipping", name |-> filename]

NoResult == [res |-> "", name |-> ""]

\* (variant: results are kept in the order the workers finish)
CollectAsFinished(rs, i, r) ==
  LET j == CHOOSE k \in 1..Len(rs) :
             rs[k] = NoResult /\ \A m \in 1..(k - 1) : rs[m] # NoResult
  IN  [rs EXCEPT ![j] = r]

\* pool.map puts the result of task i at position i
Collect(rs, i, r) == [rs EXCEPT ![i] = r]

\* `"Framed" in result`
IsFramed(r) == r.res = "framed"

\* the counts a run ends with: total_images, new_images, framed_images
RunOutcome ==
  [seen |-> total_images, downloaded |-> new_images, framed |-> framed_images]

\* download_zip
download_zip == IF zip.exists THEN "download_url" ELSE "error"

Stopped == {"idle", "done", "failed", "closed"}

\* the generator is suspended at a yield (or not yet started); at "loop" and
\* "zipping" it is suspended at the yield of the last pass, and the passes
\* that yield nothing in between write nothing
YieldPoints == {"start", "y_starting", "y_exporting", "y_exported", "y_found",
                "loop", "y_applying", "y_framing", "zipping", "y_zipcreated",
                "y_nozip"}

Yield(l) == line' = l /\ spoke' = TRUE

\* ---- initial state --------------------------------------------------------
Init ==
  /\ credentials \in BOOLEAN
  /\ ledger = <<>>
  /\ files = [n \in Names |-> "absent"]
  /\ framed_dir = {}
  /\ zip = NoZip
  /\ exported = FALSE
  /\ runs = 0
  /\ pc = "idle"
  /\ response = "none"
  /\ force_download = FALSE
  /\ downloaded_images = {}
  /\ new_downloads = <<>>
  /\ new_images = 0
  /\ data = <<>>
  /\ total_images = 0
  /\ downloaded_count = 0
  /\ examined = 0
  /\ framed_images = 0
  /\ pending = {}
  /\ results = <<>>
  /\ idx = 0
  /\ line = NoLine
  /\ stage = "Idle"
  /\ spoke = FALSE
  /\ ledger0 = <<>>
  /\ cur = NoAtt
  /\ attempts = 0
  /\ okNames = <<>>
  /\ dlLines = 0
  /\ frLines = 0

\* ---- run_automation -------------------------------------------------------
ResetRun ==
  /\ new_downloads' = <<>>
  /\ new_images' = 0
  /\ data' = <<>>
  /\ total_images' = 0
  /\ downloaded_count' = 0
  /\ examined' = 0
  /\ framed_images' = 0
  /\ pending' = {}
  /\ results' = <<>>
  /\ idx' = 0
  /\ line' = NoLine
  /\ spoke' = FALSE
  /\ ledger0' = ledger
  /\ cur' = NoAtt
  /\ attempts' = 0
  /\ okNames' = <<>>
  /\ dlLines' = 0
  /\ frLines' = 0

Run(force) ==
  /\ pc \in Stopped
  /\ runs < MaxRuns
  /\ runs' = runs + 1
  /\ force_download' = force
  /\ ResetRun
  /\ IF ~credentials
       THEN /\ response' = "exception"
            /\ downloaded_images' = {}
            /\ pc' = "failed"
            /\ stage' = "Failed"
       ELSE /\ response' = "stream"
            /\ downloaded_images' = load_downloaded_images(force)
            /\ pc' = "start"
            /\ stage' = "Loading"
  /\ UNCHANGED <<credentials, ledger, files, framed_dir, zip, exported>>

\* ---- event_stream ---------------------------------------------------------
Begin ==
  /\ pc = "start"
  /\ stage' = "Exporting"
  /\ line' = Line("starting", 0, 0, "", "")
  /\ spoke' = TRUE
  /\ pc' = "y_starting"
  /\ UNCHANGED <<persistent, response, force_download, downloaded_images,
                 new_downloads, new_images, data, total_images,
                 downloaded_count, examined, framed_images, pending, results,
                 idx, ledger0, cur, attempts, okNames, dlLines, frLines>>

Announce ==
  /\ pc = "y_starting"
  /\ Yield(Line("exporting", 0, 0, "", ""))
  /\ pc' = "y_exporting"
  /\ UNCHANGED <<persistent, response, force_download, downloaded_images,
                 new_downloads, new_images, data, total_images,
                 downloaded_count, examined, framed_images, pending, results,
                 idx, stage, ledger0, cur, attempts, okNames, dlLines,
                 frLines>>

\* subprocess.run(export_command): the tool leaves a data file, or none
Export(produced) ==
  /\ pc = "y_exporting"
  /\ exported' = (exported \/ produced)
  /\ Yield(Line("exported", 0, 0, "", ""))
  /\ pc' = "y_exported"
  /\ UNCHANGED <<credentials, ledger, files, framed_dir, zip, runs, response,
                 force_download, downloaded_images, new_downloads, new_images,
                 data, total_images, downloaded_count, examined, framed_images,
                 pending, results, idx, stage, ledger0, cur, attempts,
                 okNames, dlLines, frLines>>

\* glob, os.rename
Rename ==
  /\ pc = "y_exported"
  /\ IF exported
       THEN /\ Yield(Line("found", 0, 0, "", ""))
            /\ pc' = "y_found"
            /\ stage' = stage
       ELSE /\ Yield(Line("notfound", 0, 0, "", ""))
            /\ pc' = "failed"
            /\ stage' = "Failed"
  /\ exported' = FALSE
  /\ UNCHANGED <<credentials, ledger, files, framed_dir, zip, runs, response,
                 force_download, downloaded_images, new_downloads, new_images,
                 data, total_images, downloaded_count, examined, framed_images,
                 pending, results, idx, ledger0, cur, attempts, okNames,
                 dlLines, frLines>>

\* open(json_file), json.load
LoadJson(readable, shape) ==
  /\ pc = "y_found"
  /\ IF readable
       THEN /\ data' = NextMessage(shape)
            /\ total_images' = TotalImages(shape)
            /\ downloaded_count' = 0
            /\ pc' = "loop"
            /\ stage' = "Downloading"
            /\ spoke' = FALSE
            /\ line' = line
       ELSE /\ Yield(Line("jsonerror", 0, 0, "", ""))
            /\ pc' = "failed"
            /\ stage' = "Failed"
            /\ UNCHANGED <<data, total_images, downloaded_count>>
  /\ UNCHANGED <<persistent, response, force_download, downloaded_images,
                 new_downloads, new_images, examined, framed_images, pending,
                 results, idx, ledger0, cur, attempts, okNames, dlLines,
                 frLines>>

\* one pass of the inner loop that ends in `continue`
Skip(att) ==
  /\ pc = "loop"
  /\ data # <<>>
  /\ Skipped(att, downloaded_images)
  /\ data' = TakeOne(data)
  /\ examined' = examined + 1
  /\ cur' = att
  /\ UNCHANGED <<persistent, pc, response, force_download, downloaded_images,
                 new_downloads, new_images, total_images,
                 downloaded_count, framed_images, pending, results, idx, line,
                 stage, spoke, ledger0, attempts, okNames, dlLines, frLines>>

\* one pass of the inner loop that calls requests.get
Download(att, o) ==
  /\ pc = "loop"
  /\ data # <<>>
  /\ ~Skipped(att, downloaded_images)
  /\ data' = TakeOne(data)
  /\ examined' = examined + 1
  /\ cur' = att
  /\ attempts' = attempts + 1
  /\ okNames' = IF o \in {"image", "junk"} THEN Append(okNames, att.fileName)
                                             ELSE okNames
  /\ dlLines' = dlLines + 1
  /\ files' = WriteFile(files, att.fileName, o)
  /\ IF Succeeded(o)
       THEN /\ new_downloads' = Append(new_downloads, att.fileName)
            /\ new_images' = new_images + 1
            /\ downloaded_count' = downloaded_count + 1
            /\ Yield(Line("downloading", downloaded_count + 1, total_images,
                          att.fileName, ""))
       ELSE /\ Yield(Line(IF o = "status" THEN "dlfailed" ELSE "dlerror",
                          0, 0, att.url, ""))
            /\ UNCHANGED <<new_downloads, new_images, downloaded_count>>
  /\ UNCHANGED <<credentials, ledger, framed_dir, zip, exported, runs, pc,
                 response, force_download, downloaded_images,
                 total_images, framed_images, pending, results, idx, stage,
                 ledger0, frLines>>

\* the end of the loops and the append to the ledger
AppendLedger ==
  /\ pc = "loop"
  /\ data = <<>>
  /\ ledger' = LogAppend(ledger, new_downloads)
  /\ framed_images' = 0
  /\ pc' = "frames"
  /\ stage' = "Transforming"
  /\ spoke' = FALSE
  /\ cur' = NoAtt
  /\ UNCHANGED <<credentials, files, framed_dir, zip, exported, runs, response,
                 force_download, downloaded_images, new_downloads, new_images,
                 data, total_images, downloaded_count, examined, pending,
                 results, idx, line, ledger0, attempts, okNames, dlLines,
                 frLines>>

\* `if new_images > 0:`
Frames ==
  /\ pc = "frames"
  /\ IF new_images > 0
       THEN /\ Yield(Line("applying", 0, 0, "", ""))
            /\ pc' = "y_applying"
            /\ stage' = stage
       ELSE /\ pc' = "zip"
            /\ stage' = "Packaging"
            /\ spoke' = FALSE
            /\ line' = line
  /\ UNCHANGED <<persistent, response, force_download, downloaded_images,
                 new_downloads, new_images, data, total_images,
                 downloaded_count, examined, framed_images, pending, results,
                 idx, ledger0, cur, attempts, okNames, dlLines, frLines>>

\* pool.map hands out one task per entry of pool_args
PoolMap ==
  /\ pc = "y_applying"
  /\ pending' = 1..Len(new_downloads)
  /\ results' = [i \in 1..Len(new_downloads) |-> NoResult]
  /\ pc' = "pool"
  /\ UNCHANGED <<persistent, response, force_download, downloaded_images,
                 new_downloads, new_images, data, total_images,
                 downloaded_count, examined, framed_images, idx, line, ghosts>>

\* a pool worker finishes task i
Worker(i) ==
  /\ pc = "pool"
  /\ i \in pending
  /\ LET r == apply_frame(new_downloads[i]) IN
       /\ results' = Collect(results, i, r)
       /\ framed_dir' = IF IsFramed(r) THEN framed_dir \cup {new_downloads[i]}
                                       ELSE framed_dir
  /\ pending' = pending \ {i}
  /\ UNCHANGED <<credentials, ledger, files, zip, exported, runs, pc, response,
                 force_download, downloaded_images, new_downloads, new_images,
                 data, total_images, downloaded_count, examined, framed_images,
                 idx, line, ghosts>>

\* pool.map returns
PoolJoin ==
  /\ pc = "pool"
  /\ pending = {}
  /\ idx' = 1
  /\ pc' = "emit"
  /\ UNCHANGED <<persistent, response, force_download, downloaded_images,
                 new_downloads, new_images, data, total_images,
                 downloaded_count, examined, framed_images, pending, results,
                 line, ghosts>>

\* yield "Framing idx+1/new_images: result"
FrameYield ==
  /\ pc = "emit"
  /\ Yield(Line("framing", idx, new_images, results[idx].name, results[idx].res))
  /\ frLines' = frLines + 1
  /\ pc' = "y_framing"
  /\ UNCHANGED <<persistent, response, force_download, downloaded_images,
                 new_downloads, new_images, data, total_images,
                 downloaded_count, examined, framed_images, pending, results,
                 idx, stage, ledger0, cur, attempts, okNames, dlLines>>

\* the count after the yield, and the next turn of the loop
FrameCount ==
  /\ pc = "y_framing"
  /\ framed_images' = IF IsFramed(results[idx]) THEN framed_images + 1
                                                ELSE framed_images
  /\ IF idx < Len(results)
       THEN /\ idx' = idx + 1
            /\ pc' = "emit"
            /\ UNCHANGED <<stage, spoke>>
       ELSE /\ idx' = idx
            /\ pc' = "zip"
            /\ stage' = "Packaging"
            /\ spoke' = FALSE
  /\ UNCHANGED <<persistent, response, force_download, downloaded_images,
                 new_downloads, new_images, data, total_images,
                 downloaded_count, examined, pending, results, line, ledger0,
                 cur, attempts, okNames, dlLines, frLines>>

\* `if framed_images > 0:` the archive is opened for writing, which empties
\* it, and the first file of the listing is added (the folder holds at least
\* the files this run framed)
Zip(f) ==
  /\ pc = "zip"
  /\ framed_images > 0
  /\ f \in framed_dir
  /\ zip' = [exists |-> TRUE, entries |-> {f}]
  /\ Yield(Line("added", 0, 0, f, ""))
  /\ pc' = "zipping"
  /\ UNCHANGED <<credentials, ledger, files, framed_dir, exported, runs,
                 response, force_download, downloaded_images, new_downloads,
                 new_images, data, total_images, downloaded_count, examined,
                 framed_images, pending, results, idx, stage, ledger0, cur,
                 attempts, okNames, dlLines, frLines>>

\* (variant: nothing is said when there is nothing to package)
SkipZipSilent ==
  /\ pc = "zip"
  /\ framed_images = 0
  /\ pc' = "y_nozip"
  /\ UNCHANGED <<persistent, response, force_download, downloaded_images,
                 new_downloads, new_images, data, total_images,
                 downloaded_count, examined, framed_images, pending, results,
                 idx, line, ghosts>>

\* `else:` nothing was framed in this run, no archive is written
SkipZip ==
  /\ pc = "zip"
  /\ framed_images = 0
  /\ Yield(Line("nozip", 0, 0, "", ""))
  /\ pc' = "y_nozip"
  /\ UNCHANGED <<persistent, response, force_download, downloaded_images,
                 new_downloads, new_images, data, total_images,
                 downloaded_count, examined, framed_images, pending, results,
                 idx, stage, ledger0, cur, attempts, okNames, dlLines,
                 frLines>>

\* zipf.write of the next file of the listing
ZipAdd(f) ==
  /\ pc = "zipping"
  /\ f \in framed_dir \ zip.entries
  /\ zip' = [zip EXCEPT !.entries = @ \cup {f}]
  /\ Yield(Line("added", 0, 0, f, ""))
  /\ UNCHANGED <<credentials, ledger, files, framed_dir, exported, runs, pc,
                 response, force_download, downloaded_images, new_downloads,
                 new_images, data, total_images, downloaded_count, examined,
                 framed_images, pending, results, idx, stage, ledger0, cur,
                 attempts, okNames, dlLines, frLines>>

\* the archive is closed
ZipClose ==
  /\ pc = "zipping"
  /\ framed_dir \subseteq zip.entries
  /\ Yield(Line("zipcreated", 0, 0, "", ""))
  /\ pc' = "y_zipcreated"
  /\ UNCHANGED <<persistent, response, force_download, downloaded_images,
                 new_downloads, new_images, data, total_images,
                 downloaded_count, examined, framed_images, pending, results,
                 idx, stage, ledger0, cur, attempts, okNames, dlLines,
                 frLines>>

\* yield "Processed new_images new images, framed framed_images"
Final ==
  /\ pc \in {"y_zipcreated", "y_nozip"}
  /\ line' = Line("processed", new_images, framed_images, "", "")
  /\ spoke' = TRUE
  /\ stage' = "Done"
  /\ pc' = "done"
  /\ UNCHANGED <<persistent, response, force_download, downloaded_images,
                 new_downloads, new_images, data, total_images,
                 downloaded_count, examined, framed_images, pending, results,
                 idx, ledger0, cur, attempts, okNames, dlLines, frLines>>

\* the consumer stops reading: the generator is closed where it is suspended
\* and its locals are gone; what was written to disk stays
Interrupt ==
  /\ pc \in YieldPoints
  /\ pc' = "closed"
  /\ force_download' = FALSE
  /\ downloaded_images' = {}
  /\ ResetRun
  /\ UNCHANGED <<persistent, response, stage>>

Next ==
  \/ \E force \in BOOLEAN : Run(force)
  \/ Begin
  \/ Announce
  \/ \E produced \in BOOLEAN : Export(produced)
  \/ Rename
  \/ \E readable \in BOOLEAN, shape \in Shapes : LoadJson(readable, shape)
  \/ \E att \in Attachments : Skip(att)
  \/ \E att \in Attachments, o \in Outcomes : Download(att, o)
  \/ AppendLedger
  \/ Frames
  \/ PoolMap
  \/ \E i \in 1..MaxAtts : Worker(i)
  \/ PoolJoin
  \/ FrameYield
  \/ FrameCount
  \/ \E f \in Names : Zip(f)
  \/ SkipZip
  \/ \E f \in Names : ZipAdd(f)
  \/ ZipClose
  \/ Final
  \/ Interrupt

Spec == Init /\ [][Next]_vars

\* ---- properties -----------------------------------------------------------

IsPrefix(s, t) == Len(s) <= Len(t) /\ SubSeq(t, 1, Len(s)) = s

NoDup(s) == \A i, j \in 1..Len(s) : i # j => s[i] # s[j]

\* the newly downloaded files that decode as images
Decodable == {i \in 1..Len(okNames) : files[okNames[i]] = "image"}

AfterAppend == {"frames", "y_applying", "pool", "emit", "y_framing", "zip",
                "zipping", "y_zipcreated", "y_nozip", "done"}

DownloadKinds == {"downloading", "dlfailed", "dlerror"}

\* C1: an attachment with a url whose filename is in the ledger when the run
\* begins is, without force_download, neither retrieved nor reported; with
\* force_download every attachment with a url is retrieved; an attachment
\* without a url is neither retrieved nor reported.
C1_Dedup ==
  [][(pc = "loop" /\ examined' = examined + 1) =>
       /\ (cur'.url # "" /\ ~force_download /\ cur'.fileName \in Range(ledger0))
            => (attempts' = attempts /\ dlLines' = dlLines /\ line' = line)
       /\ (cur'.url # "" /\ force_download) => attempts' = attempts + 1
       /\ cur'.url = ""
            => (attempts' = attempts /\ dlLines' = dlLines /\ line' = line)
    ]_vars

C1_Witness ==
  /\ pc = "loop"
  /\ ~force_download
  /\ cur.url # ""
  /\ cur.fileName \in Range(ledger0)
  /\ examined = 2
  /\ attempts = 1

\* C2: after completed runs no filename is on more than one line of the ledger.
C2_NoDuplicateLines ==
  pc = "done" => NoDup(ledger)

\* C3: the ledger only ever grows at its end; the ledger update of a run
\* leaves the ledger of the start of the run followed by the names whose
\* download succeeded, in download order, whatever their transform will do;
\* from then on every such name is in the ledger.
C3_LedgerAppend ==
  [][/\ IsPrefix(ledger, ledger')
     /\ (pc = "loop" /\ pc' = "frames")
          => (ledger = ledger0 /\ ledger' = ledger0 \o okNames)
     /\ pc' \in AfterAppend => Range(okNames') \subseteq Range(ledger')
    ]_vars

C3_Witness ==
  /\ pc = "frames"
  /\ ledger0 # <<>>
  /\ Len(ledger) = Len(ledger0) + 2
  /\ files[ledger[Len(ledger)]] = "junk"

\* C4: in every line "Downloading n/total", total is the number of
\* attachments of the export, n the number of downloads completed so far,
\* and 1 <= n <= total.
C4_Counter ==
  line.kind = "downloading" =>
    /\ line.of = Candidates
    /\ line.n = Len(okNames)
    /\ 1 <= line.n
    /\ line.n <= line.of

\* C5: every retrieve, failed or not, yields exactly one line, about the
\* attachment it was issued for, and the loop goes on; a failed retrieve adds
\* nothing to new_downloads (the ledger's and the transform's input); the
\* loop ends only when every attachment of the export has been gone through.
C5_FailureIsLocal ==
  [][/\ new_downloads' = okNames'
     /\ dlLines' = attempts'
     /\ attempts' = attempts + 1 =>
          /\ dlLines' = dlLines + 1
          /\ examined' = examined + 1
          /\ pc' = "loop"
          /\ line'.kind \in DownloadKinds
          /\ line'.name \in {cur'.fileName, cur'.url}
          /\ okNames' = okNames =>
               /\ line'.kind \in {"dlfailed", "dlerror"}
               /\ line'.name = cur'.url
               /\ new_downloads' = new_downloads
               /\ ledger' = ledger
     /\ (pc = "loop" /\ pc' = "frames") => examined = Candidates
     /\ (pc = "loop" /\ pc' = "loop") => Candidates' = Candidates
     /\ pc' = "pool" => Len(results') = Len(okNames')
    ]_vars

C5_Witness ==
  /\ pc = "loop"
  /\ attempts = 2
  /\ dlLines = 2
  /\ Len(okNames) = 1
  /\ line.kind = "downloading"

C7_ArchiveMatchesFolder ==
  pc = "done" =>
    /\ framed_dir = {} => download_zip = "error"
    /\ framed_dir # {} => (download_zip = "download_url" /\ zip.entries = framed_dir)

\* C8: a run that fails on a fatal condition has delivered, as the last line
\* of its stream, a line describing the failure, and has retrieved nothing,
\* left the ledger as it was and run no transform.
C8_FatalReported ==
  pc = "failed" =>
    /\ response = "stream"
    /\ line.kind \in {"notfound", "jsonerror"}
    /\ attempts = 0
    /\ ledger = ledger0
    /\ results = <<>>

\* C9: a run that reaches Done reports seen = the attachments of the export,
\* downloaded = the downloads that succeeded, framed = those transformed,
\* with framed <= downloaded <= seen.
C9_Outcome ==
  pc = "done" =>
    /\ RunOutcome.seen = Candidates
    /\ RunOutcome.downloaded = Len(okNames)
    /\ RunOutcome.framed = Cardinality(Decodable)
    /\ RunOutcome.framed <= RunOutcome.downloaded
    /\ RunOutcome.downloaded <= RunOutcome.seen

ClaimedRank(st) ==
  CASE st = "Exporting" -> 1
    [] st = "Loading" -> 2
    [] st = "Downloading" -> 3
    [] st = "Transforming" -> 4
    [] st = "Packaging" -> 5
    [] st = "Done" -> 6
    [] OTHER -> 7

CodeRank(st) ==
  CASE st = "Loading" -> 1
    [] st = "Exporting" -> 2
    [] st = "Downloading" -> 3
    [] st = "Transforming" -> 4
    [] st = "Packaging" -> 5
    [] st = "Done" -> 6
    [] OTHER -> 7

\* C10 as stated: a run begins in Exporting (or fails at once); its stages
\* follow one another in the order Exporting, Loading, Downloading,
\* Transforming, Packaging, Done; nothing follows Failed or Done; and a
\* stage has yielded a line when the next one begins.
C10_AsStated ==
  [][/\ runs' # runs => stage' \in {"Exporting", "Failed"}
     /\ (runs' = runs /\ stage' # stage) =>
          /\ stage \notin {"Failed", "Done"}
          /\ stage' = "Failed" \/ ClaimedRank(stage') = ClaimedRank(stage) + 1
          /\ spoke
    ]_vars

\* C10: a run begins in Loading (or fails at once); its stages follow one
\* another in the order Loading, Exporting, Downloading, Transforming,
\* Packaging, Done; nothing follows Failed or Done; Exporting and Packaging
\* have yielded a line when the next stage begins, Loading has yielded none,
\* Downloading has yielded one line per retrieve and Transforming has yielded
\* lines only when something was newly downloaded; Done yields the last line.
C10_Stages ==
  [][/\ runs' # runs => stage' \in {"Loading", "Failed"}
     /\ (runs' = runs /\ stage' # stage) =>
          /\ stage \notin {"Failed", "Done"}
          /\ stage' = "Failed" \/ CodeRank(stage') = CodeRank(stage) + 1
          /\ stage \in {"Exporting", "Packaging"} => spoke
          /\ stage = "Loading" => ~spoke
          /\ stage = "Downloading" => (spoke <=> attempts > 0)
          /\ stage = "Transforming" => (spoke <=> new_images > 0)
          /\ stage' = "Done" => line'.kind = "processed"
    ]_vars

C10_Witness ==
  /\ pc = "done"
  /\ stage = "Done"
  /\ total_images > 0
  /\ examined > 0
  /\ attempts = 0
  /\ frLines = 0
  /\ line.kind = "processed"

====
